---- MODULE Spec2Model ----
(***************************************************************************)
(* EscrowSale: goal-based, time-boxed ASA sale with full escrow            *)
(* (smart_contracts/escrow_sale/escrow_sale.py).                           *)
(*                                                                         *)
(* One action per ABI method of the router.  An action is one application  *)
(* call (for contribute: the atomic group holding the call), run to        *)
(* completion.  A call whose Assert fails, or whose inner transaction is   *)
(* rejected, is rolled back by the AVM together with its whole group and   *)
(* leaves no trace in the ledger: the action's guard is the conjunction of *)
(* the conditions under which the call is approved, and "the call fails"   *)
(* is "the action is not enabled".                                         *)
(*                                                                         *)
(* Environment assumptions, stated once: inner-transaction fees are paid   *)
(* by the outer group (fee pooling, as the e2e test does), the minimum     *)
(* balance of the escrow account is kept apart from algoBal, and every     *)
(* receiver of the asset has opted in to it.  An inner transfer is         *)
(* therefore accepted exactly when the escrow holds the amount.            *)
(***************************************************************************)
EXTENDS Integers, Sequences, FiniteSets, Bags, TLC

\* ---------------- Bounds of the model ----------------
MaxContribs == 2       \* accepted contributions recorded in the history
MaxAsa == 2            \* token units deposited into the escrow account at most
MaxUint64 == 8388607   \* stand-in for 2^64 - 1, the largest AVM uint64

\* ---------------- Constants ----------------
RATE_SCALE == 1000000
DURATION_SECONDS == 60 * 24 * 60 * 60

\* ---------------- Global state keys ----------------
CREATOR == "creator"
ASA_ID == "asa_id"
RATE == "rate"
GOAL == "goal"
TOTAL == "total"
START_TS == "start_ts"
DEADLINE == "deadline"
STATUS == "status"

GlobalKeys == {CREATOR, ASA_ID, RATE, GOAL, TOTAL, START_TS, DEADLINE, STATUS}

\* status values: 0=open, 1=success, 2=expired
OPEN == 0
SUCCESS == 1
EXPIRED == 2

BOX_PREFIX == "u:"

\* ---------------- Inputs ----------------
Addr == {"A", "B"}                  \* accounts that send transactions
NoAddr == "none"                    \* creator slot before creation
ZERO_ADDR == "zero"                 \* Global.zero_address()
APP_ADDR == "app"                   \* Global.current_application_address()
AsaIds == {744398469}
Rates == {0, 500000, 1500000}       \* tokens per RATE_SCALE units of currency
Goals == {3}
Amounts == {0, 1, 2}                \* payment / withdraw / reclaim amounts
StartTimes == {1}                   \* latest timestamp when the sale is created

VARIABLES
    exists,       \* the application has been created
    global,       \* global state: key -> value
    boxes,        \* box storage: box name -> 16 bytes
    algoBal,      \* settlement currency held by the escrow account
    asaBal,       \* token units held by the escrow account
    appOptedIn,   \* the escrow account holds a slot for the asset
    now,          \* Global.latest_timestamp()
    output,       \* the uint64 returned by the latest call that returns one
    contribs,     \* history: bag of accepted contributions <<payer, amount, rate>>
    claimed,      \* history: tokens sent by claim's inner transfers, per receiver
    refunded,     \* history: currency sent by refund's inner payments, per receiver
    reclaimed     \* history: tokens sent by reclaim_asset's inner transfers, per receiver

ledger == <<exists, global, boxes, algoBal, asaBal, appOptedIn>>
history == <<contribs, claimed, refunded, reclaimed>>
vars == <<exists, global, boxes, algoBal, asaBal, appOptedIn, now, output,
          contribs, claimed, refunded, reclaimed>>

\* ---------------- Byte helpers ----------------
RECURSIVE ItobN(_, _)
ItobN(x, n) == IF n = 0 THEN <<>> ELSE Append(ItobN(x \div 256, n - 1), x % 256)

\* Itob: the 8-byte big-endian encoding of a uint64
Itob(x) == ItobN(x, 8)

RECURSIVE BtoiAcc(_, _)
BtoiAcc(bs, acc) ==
    IF bs = <<>> THEN acc ELSE BtoiAcc(Tail(bs), acc * 256 + Head(bs))

\* Btoi: big-endian bytes to uint64
Btoi(bs) == BtoiAcc(bs, 0)

Extract(bs, start, len) == SubSeq(bs, start + 1, start + len)

Concat(a, b) == a \o b

box_key(addr) == Concat(BOX_PREFIX, addr)

itob8(x) == Itob(x)

btoi8(bs, start) == Btoi(Extract(bs, start, 8))

\* ---------------- Box storage ----------------
BoxHasValue(key) == key \in DOMAIN boxes

BoxValue(key) == boxes[key]

BoxPut(key, value) ==
    IF key \in DOMAIN boxes THEN [boxes EXCEPT ![key] = value]
    ELSE boxes @@ (key :> value)

\* ---------------- uint64 arithmetic of the AVM ----------------
\* `+` that never panics
AddFits_Never_Panics(x, y) == TRUE

\* `+` panics when the sum does not fit a uint64
AddFits(x, y) == x + y <= MaxUint64

\* One past the largest uint64: the base of a double-width value <<high, low>>
Word == MaxUint64 + 1

\* The double-width operations work through their operands in digits of
\* this radix, so that every intermediate value stays below 2^31.
Radix == 128

\* sum of two double-width values
WideAdd(x, y) ==
    <<x[1] + y[1] + (x[2] + y[2]) \div Word, (x[2] + y[2]) % Word>>

\* a double-width value times a digit k <= Radix
WideTimes(x, k) ==
    <<x[1] * k + (x[2] * k) \div Word, (x[2] * k) % Word>>

\* a double-width value divided by a digit k <= Radix: <<quotient, remainder>>
WideDigits(x, k) ==
    LET low == (x[1] % k) * Word + x[2]
    IN <<(<<x[1] \div k, low \div k>>), low % k>>

\* mulw: the full-width product of two uint64 as <<high, low>>.  (Operands
\* and recursive results are bound through one-element sets so that each is
\* computed once.)
RECURSIVE mulw(_, _)
mulw(a, b) ==
    IF b = 0 THEN <<0, 0>>
    ELSE CHOOSE v \in
           UNION { { WideAdd(WideTimes(h, Radix),
                             <<(a * (bv % Radix)) \div Word,
                               (a * (bv % Radix)) % Word>>) :
                        h \in {mulw(a, bv \div Radix)} } :
                   bv \in {b} } : TRUE

\* one digit of the long division: h is the result for the higher digits,
\* d the <<higher digits, lowest digit>> of the dividend
divmodwStep(h, d, c) ==
    LET r == h[3] * Radix + d[2]
        q == WideAdd(WideTimes(<<h[1], h[2]>>, Radix), <<0, r \div c>>)
    IN <<q[1], q[2], r % c>>

\* divmodw of a double-width value by a one-word divisor c > 0:
\* <<quotient high, quotient low, remainder>>
RECURSIVE divmodw(_, _)
divmodw(x, c) ==
    IF x = <<0, 0>> THEN <<0, 0, 0>>
    ELSE CHOOSE v \in
           UNION { { divmodwStep(h, d, c) : h \in {divmodw(d[1], c)} } :
                   d \in {WideDigits(x, Radix)} } : TRUE

\* WideRatio that multiplies in one word, dropping the product's high word
WideRatio_LowWord(a, b, c) == mulw(a, b)[2] \div c

\* WideRatio([a, b], [c]): floor(a * b / c) over the full-width product
\* (mulw, divmodw); panics when the quotient does not fit a uint64
WideRatio(a, b, c) == divmodw(mulw(a, b), c)[2]

WideRatioFits(a, b, c) == divmodw(mulw(a, b), c)[1] = 0

\* ---------------- Inner transactions ----------------
\* A payment / asset transfer out of the escrow is accepted when the escrow
\* holds the amount; a zero-amount asset transfer is always accepted.
PaymentAccepted(amount) == amount <= algoBal

AssetTransferAccepted(amount) == amount <= asaBal

Init ==
    /\ exists = FALSE
    /\ global = [k \in GlobalKeys |-> IF k = CREATOR THEN NoAddr ELSE 0]
    /\ boxes = [k \in {} |-> <<>>]
    /\ algoBal = 0
    /\ asaBal = 0
    /\ appOptedIn = FALSE
    /\ now \in StartTimes
    /\ output = 0
    /\ contribs = EmptyBag
    /\ claimed = [a \in Addr |-> 0]
    /\ refunded = [a \in Addr |-> 0]
    /\ reclaimed = [a \in Addr |-> 0]

\* create_app routed on every call instead of on the creating call only
create_app_OnEveryCall(sender, asa_id, rate_tokens_per_algo, goal_microalgo) ==
    /\ AddFits(now, DURATION_SECONDS)
    /\ exists' = TRUE
    /\ global' = [k \in GlobalKeys |->
           CASE k = CREATOR -> sender
             [] k = ASA_ID -> asa_id
             [] k = RATE -> rate_tokens_per_algo
             [] k = GOAL -> goal_microalgo
             [] k = TOTAL -> 0
             [] k = START_TS -> now
             [] k = DEADLINE -> now + DURATION_SECONDS
             [] k = STATUS -> 0]
    /\ output' = 1
    /\ UNCHANGED <<boxes, algoBal, asaBal, appOptedIn, now, history>>

\* ===================== CREATE =====================
\* The router runs create_app only on the creating call (CallConfig.CREATE).
create_app(sender, asa_id, rate_tokens_per_algo, goal_microalgo) ==
    /\ ~exists
    /\ AddFits(now, DURATION_SECONDS)
    /\ exists' = TRUE
    /\ global' = [k \in GlobalKeys |->
           CASE k = CREATOR -> sender
             [] k = ASA_ID -> asa_id
             [] k = RATE -> rate_tokens_per_algo
             [] k = GOAL -> goal_microalgo
             [] k = TOTAL -> 0
             [] k = START_TS -> now
             [] k = DEADLINE -> now + DURATION_SECONDS
             [] k = STATUS -> 0]
    /\ output' = 1
    /\ UNCHANGED <<boxes, algoBal, asaBal, appOptedIn, now, history>>

\* ===================== ADMIN METHODS =====================
opt_in_asset(sender) ==
    /\ exists
    /\ sender = global[CREATOR]
    /\ AssetTransferAccepted(0)
    /\ appOptedIn' = TRUE
    /\ UNCHANGED <<exists, global, boxes, algoBal, asaBal, now, output, history>>

\* set_rate that recomputes every recorded entitlement at the new rate
set_rate_Reprices(sender, new_rate_tokens_per_algo) ==
    /\ exists
    /\ sender = global[CREATOR]
    /\ global[STATUS] = 0
    /\ global' = [global EXCEPT ![RATE] = new_rate_tokens_per_algo]
    /\ boxes' = [k \in DOMAIN boxes |->
                    Concat(itob8(btoi8(boxes[k], 0)),
                           itob8(WideRatio(btoi8(boxes[k], 0),
                                           new_rate_tokens_per_algo,
                                           RATE_SCALE)))]
    /\ UNCHANGED <<exists, algoBal, asaBal, appOptedIn, now, output, history>>

set_rate(sender, new_rate_tokens_per_algo) ==
    /\ exists
    /\ sender = global[CREATOR]
    /\ global[STATUS] = 0
    /\ global' = [global EXCEPT ![RATE] = new_rate_tokens_per_algo]
    /\ UNCHANGED <<exists, boxes, algoBal, asaBal, appOptedIn, now, output,
                   history>>

\* withdraw_algo without its status assert
withdraw_algo_AnyStatus(sender, amount) ==
    /\ exists
    /\ sender = global[CREATOR]
    /\ PaymentAccepted(amount)
    /\ algoBal' = algoBal - amount
    /\ UNCHANGED <<exists, global, boxes, asaBal, appOptedIn, now, output,
                   history>>

withdraw_algo(sender, amount) ==
    /\ exists
    /\ sender = global[CREATOR]
    /\ global[STATUS] = 1
    /\ PaymentAccepted(amount)
    /\ algoBal' = algoBal - amount
    /\ UNCHANGED <<exists, global, boxes, asaBal, appOptedIn, now, output,
                   history>>

\* reclaim_asset without its creator assert
reclaim_asset_AnySender(sender, amount, to) ==
    /\ exists
    /\ (global[STATUS] = 2 \/ global[STATUS] = 1)
    /\ AssetTransferAccepted(amount)
    /\ asaBal' = asaBal - amount
    /\ reclaimed' = [reclaimed EXCEPT ![to] = @ + amount]
    /\ UNCHANGED <<exists, global, boxes, algoBal, appOptedIn, now, output,
                   contribs, claimed, refunded>>

\* reclaim_asset that refuses while any owed_tokens are outstanding
reclaim_asset_SurplusOnly(sender, amount, to) ==
    /\ exists
    /\ sender = global[CREATOR]
    /\ (global[STATUS] = 2 \/ global[STATUS] = 1)
    /\ \A k \in DOMAIN boxes : btoi8(boxes[k], 8) = 0
    /\ AssetTransferAccepted(amount)
    /\ asaBal' = asaBal - amount
    /\ reclaimed' = [reclaimed EXCEPT ![to] = @ + amount]
    /\ UNCHANGED <<exists, global, boxes, algoBal, appOptedIn, now, output,
                   contribs, claimed, refunded>>

reclaim_asset(sender, amount, to) ==
    /\ exists
    /\ sender = global[CREATOR]
    /\ (global[STATUS] = 2 \/ global[STATUS] = 1)
    /\ AssetTransferAccepted(amount)
    /\ asaBal' = asaBal - amount
    /\ reclaimed' = [reclaimed EXCEPT ![to] = @ + amount]
    /\ UNCHANGED <<exists, global, boxes, algoBal, appOptedIn, now, output,
                   contribs, claimed, refunded>>

\* ===================== CONTRIBUTION / FINALIZE =====================
\* The atomic group a contribute call arrives in: its size, the position of
\* the call, and the fields of the group's first transaction.
WellFormedGroup(payer, amount) ==
    [size |-> 2, index |-> 1, type0 |-> "pay", sender0 |-> payer,
     receiver0 |-> APP_ADDR, amount0 |-> amount,
     rekey0 |-> ZERO_ADDR, close0 |-> ZERO_ADDR]

\* The expected group and every group that departs from it in one field.
Groups(payer, amount) ==
    LET g == WellFormedGroup(payer, amount) IN
    { g,
      [g EXCEPT !.size = 3],
      [g EXCEPT !.index = 0, !.type0 = "appl", !.receiver0 = ZERO_ADDR,
                !.amount0 = 0],
      [g EXCEPT !.type0 = "axfer"],
      [g EXCEPT !.receiver0 = payer],
      [g EXCEPT !.rekey0 = payer],
      [g EXCEPT !.close0 = payer] }

\* The currency the group's first transaction moves into the escrow account.
GroupPaysEscrow(g) ==
    IF g.type0 = "pay" /\ g.receiver0 = APP_ADDR THEN g.amount0 ELSE 0

\* contribute that adds the credited tokens, not the payment, to the total
contribute_TotalAddsTokens(sender, g) ==
    /\ exists
    /\ BagCardinality(contribs) < MaxContribs
    /\ LET app_addr == APP_ADDR
           rate == global[RATE]
           user_key == box_key(g.sender0)
           present == BoxHasValue(user_key)
           pledged == IF present THEN btoi8(BoxValue(user_key), 0) ELSE 0
           owed == IF present THEN btoi8(BoxValue(user_key), 8) ELSE 0
           tokens == WideRatio(g.amount0, rate, RATE_SCALE)
       IN /\ global[STATUS] = 0
          /\ now < global[DEADLINE]
          /\ g.size = 2
          /\ g.index = 1
          /\ g.type0 = "pay"
          /\ g.receiver0 = app_addr
          /\ g.amount0 > 0
          /\ g.rekey0 = ZERO_ADDR
          /\ g.close0 = ZERO_ADDR
          /\ WideRatioFits(g.amount0, rate, RATE_SCALE)
          /\ tokens > 0
          /\ AddFits(pledged, g.amount0)
          /\ AddFits(owed, tokens)
          /\ boxes' = BoxPut(user_key, Concat(itob8(pledged + g.amount0),
                                              itob8(owed + tokens)))
          /\ AddFits(global[TOTAL], tokens)
          /\ global' = [global EXCEPT ![TOTAL] = global[TOTAL] + tokens]
          /\ algoBal' = algoBal + GroupPaysEscrow(g)
          /\ contribs' = contribs (+) SetToBag({<<g.sender0, g.amount0, rate>>})
          /\ UNCHANGED <<exists, asaBal, appOptedIn, now, output, claimed,
                         refunded, reclaimed>>

\* contribute that recomputes owed_tokens from the running pledge
contribute_FloorOnRunningSum(sender, g) ==
    /\ exists
    /\ BagCardinality(contribs) < MaxContribs
    /\ LET app_addr == APP_ADDR
           rate == global[RATE]
           user_key == box_key(g.sender0)
           present == BoxHasValue(user_key)
           pledged == IF present THEN btoi8(BoxValue(user_key), 0) ELSE 0
           owed == IF present THEN btoi8(BoxValue(user_key), 8) ELSE 0
           tokens == WideRatio(g.amount0, rate, RATE_SCALE)
       IN /\ global[STATUS] = 0
          /\ now < global[DEADLINE]
          /\ g.size = 2
          /\ g.index = 1
          /\ g.type0 = "pay"
          /\ g.receiver0 = app_addr
          /\ g.amount0 > 0
          /\ g.rekey0 = ZERO_ADDR
          /\ g.close0 = ZERO_ADDR
          /\ WideRatioFits(g.amount0, rate, RATE_SCALE)
          /\ tokens > 0
          /\ AddFits(pledged, g.amount0)
          /\ WideRatioFits(pledged + g.amount0, rate, RATE_SCALE)
          /\ boxes' = BoxPut(user_key,
                 Concat(itob8(pledged + g.amount0),
                        itob8(WideRatio(pledged + g.amount0, rate, RATE_SCALE))))
          /\ AddFits(global[TOTAL], g.amount0)
          /\ global' = [global EXCEPT ![TOTAL] = global[TOTAL] + g.amount0]
          /\ algoBal' = algoBal + GroupPaysEscrow(g)
          /\ contribs' = contribs (+) SetToBag({<<g.sender0, g.amount0, rate>>})
          /\ UNCHANGED <<exists, asaBal, appOptedIn, now, output, claimed,
                         refunded, reclaimed>>

\* contribute without the assert on the computed tokens
contribute_NoDustAssert(sender, g) ==
    /\ exists
    /\ BagCardinality(contribs) < MaxContribs
    /\ LET app_addr == APP_ADDR
           rate == global[RATE]
           user_key == box_key(g.sender0)
           present == BoxHasValue(user_key)
           pledged == IF present THEN btoi8(BoxValue(user_key), 0) ELSE 0
           owed == IF present THEN btoi8(BoxValue(user_key), 8) ELSE 0
           tokens == WideRatio(g.amount0, rate, RATE_SCALE)
       IN /\ global[STATUS] = 0
          /\ now < global[DEADLINE]
          /\ g.size = 2
          /\ g.index = 1
          /\ g.type0 = "pay"
          /\ g.receiver0 = app_addr
          /\ g.amount0 > 0
          /\ g.rekey0 = ZERO_ADDR
          /\ g.close0 = ZERO_ADDR
          /\ WideRatioFits(g.amount0, rate, RATE_SCALE)
          /\ AddFits(pledged, g.amount0)
          /\ AddFits(owed, tokens)
          /\ boxes' = BoxPut(user_key, Concat(itob8(pledged + g.amount0),
                                              itob8(owed + tokens)))
          /\ AddFits(global[TOTAL], g.amount0)
          /\ global' = [global EXCEPT ![TOTAL] = global[TOTAL] + g.amount0]
          /\ algoBal' = algoBal + GroupPaysEscrow(g)
          /\ contribs' = contribs (+) SetToBag({<<g.sender0, g.amount0, rate>>})
          /\ UNCHANGED <<exists, asaBal, appOptedIn, now, output, claimed,
                         refunded, reclaimed>>

\* contribute that still accepts at now = deadline
contribute_AtDeadline(sender, g) ==
    /\ exists
    /\ BagCardinality(contribs) < MaxContribs
    /\ LET app_addr == APP_ADDR
           rate == global[RATE]
           user_key == box_key(g.sender0)
           present == BoxHasValue(user_key)
           pledged == IF present THEN btoi8(BoxValue(user_key), 0) ELSE 0
           owed == IF present THEN btoi8(BoxValue(user_key), 8) ELSE 0
           tokens == WideRatio(g.amount0, rate, RATE_SCALE)
       IN /\ global[STATUS] = 0
          /\ now <= global[DEADLINE]
          /\ g.size = 2
          /\ g.index = 1
          /\ g.type0 = "pay"
          /\ g.receiver0 = app_addr
          /\ g.amount0 > 0
          /\ g.rekey0 = ZERO_ADDR
          /\ g.close0 = ZERO_ADDR
          /\ WideRatioFits(g.amount0, rate, RATE_SCALE)
          /\ tokens > 0
          /\ AddFits(pledged, g.amount0)
          /\ AddFits(owed, tokens)
          /\ boxes' = BoxPut(user_key, Concat(itob8(pledged + g.amount0),
                                              itob8(owed + tokens)))
          /\ AddFits(global[TOTAL], g.amount0)
          /\ global' = [global EXCEPT ![TOTAL] = global[TOTAL] + g.amount0]
          /\ algoBal' = algoBal + GroupPaysEscrow(g)
          /\ contribs' = contribs (+) SetToBag({<<g.sender0, g.amount0, rate>>})
          /\ UNCHANGED <<exists, asaBal, appOptedIn, now, output, claimed,
                         refunded, reclaimed>>

\* contribute without the assert on the payment's receiver
contribute_AnyReceiver(sender, g) ==
    /\ exists
    /\ BagCardinality(contribs) < MaxContribs
    /\ LET app_addr == APP_ADDR
           rate == global[RATE]
           user_key == box_key(g.sender0)
           present == BoxHasValue(user_key)
           pledged == IF present THEN btoi8(BoxValue(user_key), 0) ELSE 0
           owed == IF present THEN btoi8(BoxValue(user_key), 8) ELSE 0
           tokens == WideRatio(g.amount0, rate, RATE_SCALE)
       IN /\ global[STATUS] = 0
          /\ now < global[DEADLINE]
          /\ g.size = 2
          /\ g.index = 1
          /\ g.type0 = "pay"
          /\ g.amount0 > 0
          /\ g.rekey0 = ZERO_ADDR
          /\ g.close0 = ZERO_ADDR
          /\ WideRatioFits(g.amount0, rate, RATE_SCALE)
          /\ tokens > 0
          /\ AddFits(pledged, g.amount0)
          /\ AddFits(owed, tokens)
          /\ boxes' = BoxPut(user_key, Concat(itob8(pledged + g.amount0),
                                              itob8(owed + tokens)))
          /\ AddFits(global[TOTAL], g.amount0)
          /\ global' = [global EXCEPT ![TOTAL] = global[TOTAL] + g.amount0]
          /\ algoBal' = algoBal + GroupPaysEscrow(g)
          /\ contribs' = contribs (+) SetToBag({<<g.sender0, g.amount0, rate>>})
          /\ UNCHANGED <<exists, asaBal, appOptedIn, now, output, claimed,
                         refunded, reclaimed>>

contribute(sender, g) ==
    /\ exists
    /\ BagCardinality(contribs) < MaxContribs
    /\ LET app_addr == APP_ADDR
           rate == global[RATE]
           user_key == box_key(g.sender0)
           present == BoxHasValue(user_key)
           pledged == IF present THEN btoi8(BoxValue(user_key), 0) ELSE 0
           owed == IF present THEN btoi8(BoxValue(user_key), 8) ELSE 0
           tokens == WideRatio(g.amount0, rate, RATE_SCALE)
       IN /\ global[STATUS] = 0
          /\ now < global[DEADLINE]
          /\ g.size = 2
          /\ g.index = 1
          /\ g.type0 = "pay"
          /\ g.receiver0 = app_addr
          /\ g.amount0 > 0
          /\ g.rekey0 = ZERO_ADDR
          /\ g.close0 = ZERO_ADDR
          /\ WideRatioFits(g.amount0, rate, RATE_SCALE)
          /\ tokens > 0
          /\ AddFits(pledged, g.amount0)
          /\ AddFits(owed, tokens)
          /\ boxes' = BoxPut(user_key, Concat(itob8(pledged + g.amount0),
                                              itob8(owed + tokens)))
          /\ AddFits(global[TOTAL], g.amount0)
          /\ global' = [global EXCEPT ![TOTAL] = global[TOTAL] + g.amount0]
          /\ algoBal' = algoBal + GroupPaysEscrow(g)
          /\ contribs' = contribs (+) SetToBag({<<g.sender0, g.amount0, rate>>})
          /\ UNCHANGED <<exists, asaBal, appOptedIn, now, output, claimed,
                         refunded, reclaimed>>

\* finalize without its status assert
finalize_NoStatusAssert(sender) ==
    /\ exists
    /\ LET total == global[TOTAL]
           goal == global[GOAL]
           deadline == global[DEADLINE]
       IN /\ IF total >= goal
             THEN global' = [global EXCEPT ![STATUS] = 1]
             ELSE /\ now >= deadline
                  /\ global' = [global EXCEPT ![STATUS] = 2]
          /\ UNCHANGED <<exists, boxes, algoBal, asaBal, appOptedIn, now,
                         output, history>>

\* finalize that needs the total to exceed the goal
finalize_StrictGoal(sender) ==
    /\ exists
    /\ LET total == global[TOTAL]
           goal == global[GOAL]
           deadline == global[DEADLINE]
       IN /\ global[STATUS] = 0
          /\ IF total > goal
             THEN global' = [global EXCEPT ![STATUS] = 1]
             ELSE /\ now >= deadline
                  /\ global' = [global EXCEPT ![STATUS] = 2]
          /\ UNCHANGED <<exists, boxes, algoBal, asaBal, appOptedIn, now,
                         output, history>>

\* finalize that accepts the expiry branch only after the deadline has passed
finalize_AfterDeadlineOnly(sender) ==
    /\ exists
    /\ LET total == global[TOTAL]
           goal == global[GOAL]
           deadline == global[DEADLINE]
       IN /\ global[STATUS] = 0
          /\ IF total >= goal
             THEN global' = [global EXCEPT ![STATUS] = 1]
             ELSE /\ now > deadline
                  /\ global' = [global EXCEPT ![STATUS] = 2]
          /\ UNCHANGED <<exists, boxes, algoBal, asaBal, appOptedIn, now,
                         output, history>>

finalize(sender) ==
    /\ exists
    /\ LET total == global[TOTAL]
           goal == global[GOAL]
           deadline == global[DEADLINE]
       IN /\ global[STATUS] = 0
          /\ IF total >= goal
             THEN global' = [global EXCEPT ![STATUS] = 1]
             ELSE /\ now >= deadline
                  /\ global' = [global EXCEPT ![STATUS] = 2]
          /\ UNCHANGED <<exists, boxes, algoBal, asaBal, appOptedIn, now,
                         output, history>>

\* ===================== CLAIM / REFUND =====================
\* claim that sends the tokens and leaves the record as it was
claim_KeepsRecord(sender) ==
    /\ exists
    /\ global[STATUS] = 1
    /\ LET user_key == box_key(sender) IN
       /\ BoxHasValue(user_key)
       /\ LET pledged == btoi8(BoxValue(user_key), 0)
              owed == btoi8(BoxValue(user_key), 8)
          IN /\ owed > 0
             /\ AssetTransferAccepted(owed)
             /\ asaBal' = asaBal - owed
             /\ claimed' = [claimed EXCEPT ![sender] = @ + owed]
             /\ output' = owed
             /\ UNCHANGED <<exists, global, boxes, algoBal, appOptedIn, now,
                            contribs, refunded, reclaimed>>

\* claim that zeroes only the owed_tokens half of the record
claim_KeepsPledged(sender) ==
    /\ exists
    /\ global[STATUS] = 1
    /\ LET user_key == box_key(sender) IN
       /\ BoxHasValue(user_key)
       /\ LET pledged == btoi8(BoxValue(user_key), 0)
              owed == btoi8(BoxValue(user_key), 8)
          IN /\ owed > 0
             /\ AssetTransferAccepted(owed)
             /\ asaBal' = asaBal - owed
             /\ claimed' = [claimed EXCEPT ![sender] = @ + owed]
             /\ boxes' = BoxPut(user_key, Concat(itob8(pledged), itob8(0)))
             /\ output' = owed
             /\ UNCHANGED <<exists, global, algoBal, appOptedIn, now,
                            contribs, refunded, reclaimed>>

\* claim that zeroes every box instead of the caller's
claim_ZeroesEveryBox(sender) ==
    /\ exists
    /\ global[STATUS] = 1
    /\ LET user_key == box_key(sender) IN
       /\ BoxHasValue(user_key)
       /\ LET pledged == btoi8(BoxValue(user_key), 0)
              owed == btoi8(BoxValue(user_key), 8)
          IN /\ owed > 0
             /\ AssetTransferAccepted(owed)
             /\ asaBal' = asaBal - owed
             /\ claimed' = [claimed EXCEPT ![sender] = @ + owed]
             /\ boxes' = [k \in DOMAIN boxes |-> Concat(itob8(0), itob8(0))]
             /\ output' = owed
             /\ UNCHANGED <<exists, global, algoBal, appOptedIn, now,
                            contribs, refunded, reclaimed>>

\* claim that zeroes the record although its inner transfer was rejected
claim_SwallowsRejection(sender) ==
    /\ exists
    /\ global[STATUS] = 1
    /\ LET user_key == box_key(sender) IN
       /\ BoxHasValue(user_key)
       /\ LET pledged == btoi8(BoxValue(user_key), 0)
              owed == btoi8(BoxValue(user_key), 8)
          IN /\ owed > 0
             /\ asaBal' = IF AssetTransferAccepted(owed) THEN asaBal - owed
                          ELSE asaBal
             /\ claimed' = IF AssetTransferAccepted(owed)
                           THEN [claimed EXCEPT ![sender] = @ + owed]
                           ELSE claimed
             /\ boxes' = BoxPut(user_key, Concat(itob8(0), itob8(0)))
             /\ output' = owed
             /\ UNCHANGED <<exists, global, algoBal, appOptedIn, now,
                            contribs, refunded, reclaimed>>

claim(sender) ==
    /\ exists
    /\ global[STATUS] = 1
    /\ LET user_key == box_key(sender) IN
       /\ BoxHasValue(user_key)
       /\ LET pledged == btoi8(BoxValue(user_key), 0)
              owed == btoi8(BoxValue(user_key), 8)
          IN /\ owed > 0
             /\ AssetTransferAccepted(owed)
             /\ asaBal' = asaBal - owed
             /\ claimed' = [claimed EXCEPT ![sender] = @ + owed]
             /\ boxes' = BoxPut(user_key, Concat(itob8(0), itob8(0)))
             /\ output' = owed
             /\ UNCHANGED <<exists, global, algoBal, appOptedIn, now,
                            contribs, refunded, reclaimed>>

\* refund that zeroes only the owed_tokens half of the record
refund_KeepsPledged(sender) ==
    /\ exists
    /\ global[STATUS] = 2
    /\ LET user_key == box_key(sender) IN
       /\ BoxHasValue(user_key)
       /\ LET pledged == btoi8(BoxValue(user_key), 0)
              owed == btoi8(BoxValue(user_key), 8)
          IN /\ pledged > 0
             /\ PaymentAccepted(pledged)
             /\ algoBal' = algoBal - pledged
             /\ refunded' = [refunded EXCEPT ![sender] = @ + pledged]
             /\ boxes' = BoxPut(user_key, Concat(itob8(pledged), itob8(0)))
             /\ output' = pledged
             /\ UNCHANGED <<exists, global, asaBal, appOptedIn, now,
                            contribs, claimed, reclaimed>>

refund(sender) ==
    /\ exists
    /\ global[STATUS] = 2
    /\ LET user_key == box_key(sender) IN
       /\ BoxHasValue(user_key)
       /\ LET pledged == btoi8(BoxValue(user_key), 0)
              owed == btoi8(BoxValue(user_key), 8)
          IN /\ pledged > 0
             /\ PaymentAccepted(pledged)
             /\ algoBal' = algoBal - pledged
             /\ refunded' = [refunded EXCEPT ![sender] = @ + pledged]
             /\ boxes' = BoxPut(user_key, Concat(itob8(0), itob8(0)))
             /\ output' = pledged
             /\ UNCHANGED <<exists, global, asaBal, appOptedIn, now,
                            contribs, claimed, reclaimed>>

noop(sender) ==
    /\ exists
    /\ UNCHANGED vars

\* ===================== ENVIRONMENT =====================
\* The block timestamps at which the sale is observed after its creation.
TimePoints == {global[DEADLINE] - 1, global[DEADLINE], global[DEADLINE] + 1}

\* A later block: the latest timestamp moves forward.
Tick(t) ==
    /\ exists
    /\ t > now
    /\ now' = t
    /\ UNCHANGED <<ledger, output, history>>

\* The token units transferred to the escrow address so far: what it holds
\* and what its inner transfers have sent out.
RECURSIVE SumOver(_, _)
SumOver(f, S) ==
    IF S = {} THEN 0
    ELSE LET a == CHOOSE x \in S : TRUE IN f[a] + SumOver(f, S \ {a})

Deposited == asaBal + SumOver(reclaimed, Addr) + SumOver(claimed, Addr)

\* An asset transfer to the escrow address, once it has opted in.
Deposit(amount) ==
    /\ exists
    /\ appOptedIn
    /\ amount > 0
    /\ Deposited + amount <= MaxAsa
    /\ asaBal' = asaBal + amount
    /\ UNCHANGED <<exists, global, boxes, algoBal, appOptedIn, now, output,
                   history>>

Next ==
    \/ \E s \in Addr, a \in AsaIds, r \in Rates, g \in Goals :
           create_app(s, a, r, g)
    \/ \E s \in Addr : opt_in_asset(s)
    \/ \E s \in Addr, r \in Rates : set_rate(s, r)
    \/ \E s \in Addr, m \in Amounts : withdraw_algo(s, m)
    \/ \E s \in Addr, m \in Amounts, to \in Addr : reclaim_asset(s, m, to)
    \/ \E s \in Addr, p \in Addr, m \in Amounts :
           \E g \in Groups(p, m) : contribute(s, g)
    \/ \E s \in Addr : finalize(s)
    \/ \E s \in Addr : claim(s)
    \/ \E s \in Addr : refund(s)
    \/ \E s \in Addr : noop(s)
    \/ \E t \in TimePoints : Tick(t)
    \/ \E m \in Amounts : Deposit(m)

Spec == Init /\ [][Next]_vars

\* ===================== FAIRNESS =====================
\* Blocks keep being produced, so the latest timestamp keeps advancing, and
\* a finalize call that stays possible is eventually submitted.
SpecFair ==
    /\ Spec
    /\ WF_vars(\E t \in TimePoints : Tick(t))
    /\ WF_vars(\E s \in Addr : finalize(s))

\* ===================== WIDE INPUTS =====================
\* The same contract driven with rates and amounts in the upper range of a
\* uint64, where products and sums leave one word.
WideRates == {1000, 1500000}
WideGoals == {6000000}
WideAmounts == {3000001, 6000000}
WideSupply == {4500001}

\* The sale's token supply transferred to the escrow address in one deposit.
DepositSupply(amount) ==
    /\ exists
    /\ appOptedIn
    /\ amount > 0
    /\ Deposited = 0
    /\ asaBal' = asaBal + amount
    /\ UNCHANGED <<exists, global, boxes, algoBal, appOptedIn, now, output,
                   history>>

NextWide ==
    \/ \E s \in Addr, a \in AsaIds, r \in WideRates, g \in WideGoals :
           create_app(s, a, r, g)
    \/ \E s \in Addr : opt_in_asset(s)
    \/ \E s \in Addr, r \in WideRates : set_rate(s, r)
    \/ \E s \in Addr, m \in WideAmounts : withdraw_algo(s, m)
    \/ \E s \in Addr, m \in WideSupply, to \in Addr : reclaim_asset(s, m, to)
    \/ \E s \in Addr, p \in Addr, m \in WideAmounts :
           \E g \in Groups(p, m) : contribute(s, g)
    \/ \E s \in Addr : finalize(s)
    \/ \E s \in Addr : claim(s)
    \/ \E s \in Addr : refund(s)
    \/ \E s \in Addr : noop(s)
    \/ \E t \in TimePoints : Tick(t)
    \/ \E m \in WideSupply : DepositSupply(m)

SpecWide == Init /\ [][NextWide]_vars

\* ===================== READING THE LEDGER =====================
\* The two fields of a contributor's box; an absent box reads as zero.
PledgedIn(bx, a) ==
    IF box_key(a) \in DOMAIN bx THEN btoi8(bx[box_key(a)], 0) ELSE 0

OwedIn(bx, a) ==
    IF box_key(a) \in DOMAIN bx THEN btoi8(bx[box_key(a)], 8) ELSE 0

Pledged(a) == PledgedIn(boxes, a)

Owed(a) == OwedIn(boxes, a)

\* Reference sums over the history of accepted contributions, computed from
\* the recorded payments and rates and not from the boxes or the total.
RECURSIVE SumAmounts(_, _)
SumAmounts(B, S) ==
    IF S = {} THEN 0
    ELSE LET e == CHOOSE x \in S : TRUE
         IN CopiesIn(e, B) * e[2] + SumAmounts(B, S \ {e})

RECURSIVE SumTokens(_, _)
SumTokens(B, S) ==
    IF S = {} THEN 0
    ELSE LET e == CHOOSE x \in S : TRUE
         IN CopiesIn(e, B) * ((e[2] * e[3]) \div 1000000)
            + SumTokens(B, S \ {e})

ByPayer(a) == {e \in BagToSet(contribs) : e[1] = a}

PaidBy(a) == SumAmounts(contribs, ByPayer(a))

AccruedBy(a) == SumTokens(contribs, ByPayer(a))

PaidTotal == SumAmounts(contribs, BagToSet(contribs))

RECURSIVE SumPledged(_)
SumPledged(S) ==
    IF S = {} THEN 0
    ELSE LET a == CHOOSE x \in S : TRUE IN Pledged(a) + SumPledged(S \ {a})

\* ===================== C1 =====================
\* C1: status is a one-way latch.  Once the status is SUCCESS or EXPIRED no
\* step changes it (no SUCCESS->EXPIRED, no EXPIRED->SUCCESS, nothing back to
\* OPEN), the only steps out of OPEN lead to SUCCESS or EXPIRED, and in every
\* state whose status is not OPEN a finalize call by any sender is rejected.
C1_StatusLatch ==
    /\ []((exists /\ global[STATUS] # OPEN)
          => \A s \in Addr : ~ENABLED finalize(s))
    /\ [][ /\ (exists /\ global[STATUS] # OPEN)
               => global'[STATUS] = global[STATUS]
           /\ global'[STATUS] \in {OPEN, SUCCESS, EXPIRED} ]_vars

\* A sale that succeeded, whose deadline has since passed, and in which a
\* contributor has claimed: operations ran after the latch closed.
C1_Witness ==
    /\ global[STATUS] = SUCCESS
    /\ now >= global[DEADLINE]
    /\ \E a \in Addr : claimed[a] > 0

\* ===================== C2 =====================
\* C2: no double claim.  A step in which claim pays contributor a sends
\* exactly the owed_tokens of a's record out of the escrow, returns that
\* amount and leaves the record with both fields zero; once a has been paid,
\* claim by a is rejected; the tokens claim has paid to a never exceed the
\* entitlement a accrued through accepted contributions.
C2_NoDoubleClaim ==
    /\ [](\A a \in Addr :
            /\ claimed[a] <= AccruedBy(a)
            /\ claimed[a] > 0 => ~ENABLED claim(a))
    /\ [][\A a \in Addr :
            claimed'[a] # claimed[a]
            => /\ Owed(a) > 0
               /\ claimed'[a] = claimed[a] + Owed(a)
               /\ asaBal' = asaBal - Owed(a)
               /\ output' = Owed(a)
               /\ box_key(a) \in DOMAIN boxes'
               /\ PledgedIn(boxes', a) = 0
               /\ OwedIn(boxes', a) = 0]_vars

\* A contributor has been paid the whole entitlement and the record is
\* present and zeroed.
C2_Witness ==
    \E a \in Addr :
        /\ claimed[a] > 0
        /\ claimed[a] = AccruedBy(a)
        /\ output = claimed[a]
        /\ BoxHasValue(box_key(a))
        /\ Owed(a) = 0

\* ===================== C3 =====================
\* C3: no double refund.  A step in which refund pays contributor a sends
\* exactly the pledged_amount of a's record, the sum of a's accepted
\* payments, out of the escrow, returns that amount and leaves the record
\* with both fields zero; once a has been refunded, refund by a is rejected;
\* the currency refunded to a never exceeds what a pledged.
C3_NoDoubleRefund ==
    /\ [](\A a \in Addr :
            /\ refunded[a] <= PaidBy(a)
            /\ refunded[a] > 0 => ~ENABLED refund(a))
    /\ [][\A a \in Addr :
            refunded'[a] # refunded[a]
            => /\ global[STATUS] = EXPIRED
               /\ Pledged(a) > 0
               /\ Pledged(a) = PaidBy(a)
               /\ refunded'[a] = refunded[a] + Pledged(a)
               /\ algoBal' = algoBal - Pledged(a)
               /\ output' = Pledged(a)
               /\ box_key(a) \in DOMAIN boxes'
               /\ PledgedIn(boxes', a) = 0
               /\ OwedIn(boxes', a) = 0]_vars

\* A contributor who paid twice has been refunded the sum, and the record is
\* present and zeroed.
C3_Witness ==
    \E a \in Addr :
        /\ refunded[a] = 2
        /\ refunded[a] = PaidBy(a)
        /\ output = refunded[a]
        /\ BoxHasValue(box_key(a))
        /\ Pledged(a) = 0

\* ===================== C4 =====================
\* C4: the global total equals the exact sum of the payment amounts of the
\* accepted contributions; no step decreases it; once the status has left
\* OPEN no step (refund, claim and withdraw included) changes it.
C4_TotalIsSumOfPayments ==
    /\ [](global[TOTAL] = PaidTotal)
    /\ [][ /\ global'[TOTAL] >= global[TOTAL]
           /\ global[STATUS] # OPEN => global'[TOTAL] = global[TOTAL] ]_vars

\* A finalized sale with two accepted payments, after currency has left the
\* escrow by withdraw or refund: the total still is the sum of the payments.
C4_Witness ==
    /\ global[STATUS] # OPEN
    /\ BagCardinality(contribs) = 2
    /\ global[TOTAL] = 3
    /\ algoBal < global[TOTAL]

\* ===================== C5 =====================
\* C5: for a contributor whose record has not been settled, owed_tokens is
\* the sum over the accepted contributions of floor(amount_i * rate_i /
\* 1,000,000), rate_i being the rate stored when contribution i ran, and
\* pledged_amount is the sum of amount_i.
C5_EntitlementPerContribution ==
    \A a \in Addr :
        (claimed[a] = 0 /\ refunded[a] = 0)
        => /\ Owed(a) = AccruedBy(a)
           /\ Pledged(a) = PaidBy(a)

\* One contributor paid 2 at rate 500,000 and 1 at rate 1,500,000, the rate
\* having been changed in between: floor(1) + floor(1.5) = 2, where a floor
\* over the running sum at the later rate would give floor(4.5) = 4.
C5_Witness ==
    \E a \in Addr :
        /\ CopiesIn(<<a, 2, 500000>>, contribs) = 1
        /\ CopiesIn(<<a, 1, 1500000>>, contribs) = 1
        /\ Owed(a) = 2
        /\ Pledged(a) = 3

\* ===================== C6 =====================
\* C6: in every state whose status is EXPIRED the currency the escrow holds
\* is at least the sum of pledged_amount over all records, and refund is
\* enabled for every contributor whose pledged_amount is positive.
C6_ExpiredSaleIsSolvent ==
    (exists /\ global[STATUS] = EXPIRED)
    => /\ algoBal >= SumPledged(Addr)
       /\ \A a \in Addr : Pledged(a) > 0 => ENABLED refund(a)

\* An expired sale in which one contributor has been refunded and another
\* still has currency pledged.
C6_Witness ==
    /\ global[STATUS] = EXPIRED
    /\ \E a, b \in Addr : a # b /\ refunded[a] > 0 /\ Pledged(b) > 0

\* ===================== C7 =====================
\* C7: in status OPEN the outcome of finalize depends on (total, goal, now,
\* deadline) alone and not on the sender: it is approved exactly when
\* total >= goal or now >= deadline; the step sets the status to SUCCESS when
\* total >= goal, before or after the deadline, and to EXPIRED otherwise, and
\* changes nothing else.
C7_FinalizeOutcome ==
    /\ []((exists /\ global[STATUS] = OPEN)
          => \A s \in Addr :
                ENABLED finalize(s)
                <=> (global[TOTAL] >= global[GOAL] \/ now >= global[DEADLINE]))
    /\ [][(exists /\ global[STATUS] = OPEN /\ global'[STATUS] # OPEN)
          => /\ global' = [global EXCEPT ![STATUS] =
                    IF global[TOTAL] >= global[GOAL] THEN SUCCESS ELSE EXPIRED]
             /\ UNCHANGED <<exists, boxes, algoBal, asaBal, appOptedIn, now,
                            output, history>>]_vars

\* The boundary: a sale finalized to SUCCESS before the deadline with the
\* total exactly at the goal.
C7_Witness ==
    /\ global[STATUS] = SUCCESS
    /\ global[TOTAL] = global[GOAL]
    /\ now < global[DEADLINE]

\* ===================== C8 =====================
\* C8: dust rejection.  A contribute whose computed tokens,
\* floor(amount * rate / 1,000,000), is 0 -- every contribute while the rate
\* is 0 included -- is rejected, whoever sends it and whatever its group.
C8_DustRejected ==
    \A s \in Addr, p \in Addr, m \in Amounts :
        \A g \in Groups(p, m) :
            (g.amount0 * global[RATE]) \div 1000000 = 0
            => ~ENABLED contribute(s, g)

\* An open sale before its deadline, at rate 500,000: the well-formed
\* contribute of 2 is approved and the well-formed contribute of 1, whose
\* tokens round to 0, is not.
C8_Witness ==
    /\ exists
    /\ global[STATUS] = OPEN
    /\ now < global[DEADLINE]
    /\ global[RATE] = 500000
    /\ \E s \in Addr :
          /\ ENABLED contribute(s, WellFormedGroup(s, 2))
          /\ ~ENABLED contribute(s, WellFormedGroup(s, 1))

\* ===================== C9 =====================
\* C9: phase gating.  contribute is approved only in OPEN and only while
\* now < deadline; set_rate only in OPEN; claim and withdraw_algo only in
\* SUCCESS; refund only in EXPIRED; reclaim_asset only in SUCCESS or EXPIRED.
\* No contributor is ever paid by both claim and refund, and once the status
\* has left OPEN no record and no total grows.
C9_PhaseGating ==
    /\ [](/\ ~(global[STATUS] = OPEN /\ now < global[DEADLINE])
                => \A s \in Addr, p \in Addr, m \in Amounts :
                      \A g \in Groups(p, m) : ~ENABLED contribute(s, g)
          /\ global[STATUS] # OPEN
                => \A s \in Addr, r \in Rates : ~ENABLED set_rate(s, r)
          /\ global[STATUS] # SUCCESS
                => /\ \A s \in Addr : ~ENABLED claim(s)
                   /\ \A s \in Addr, m \in Amounts :
                         ~ENABLED withdraw_algo(s, m)
          /\ global[STATUS] # EXPIRED
                => \A s \in Addr : ~ENABLED refund(s)
          /\ global[STATUS] \notin {SUCCESS, EXPIRED}
                => \A s \in Addr, m \in Amounts, to \in Addr :
                      ~ENABLED reclaim_asset(s, m, to)
          /\ \A a \in Addr : ~(claimed[a] > 0 /\ refunded[a] > 0))
    /\ [][global[STATUS] # OPEN
          => /\ contribs' = contribs
             /\ global'[TOTAL] = global[TOTAL]
             /\ \/ boxes' = boxes
                \/ \A a \in Addr : /\ PledgedIn(boxes', a) <= Pledged(a)
                                   /\ OwedIn(boxes', a) <= Owed(a)]_vars

\* An open sale exactly at its deadline, with a rate at which a payment of 1
\* earns a token: the well-formed contribute is rejected by the clock alone.
C9_Witness ==
    /\ exists
    /\ global[STATUS] = OPEN
    /\ now = global[DEADLINE]
    /\ global[RATE] = 1500000
    /\ BagCardinality(contribs) < MaxContribs
    /\ \A s \in Addr : ~ENABLED contribute(s, WellFormedGroup(s, 1))

\* ===================== C10 =====================
\* C10: creator-only admin operations.  opt_in_asset, set_rate,
\* withdraw_algo and reclaim_asset sent by anyone but the creator recorded at
\* creation are rejected in every status; the recorded creator is the sender
\* of the creating call and no later step changes it.
C10_CreatorOnly ==
    /\ [](\A s \in Addr :
            s # global[CREATOR]
            => /\ ~ENABLED opt_in_asset(s)
               /\ \A r \in Rates : ~ENABLED set_rate(s, r)
               /\ \A m \in Amounts : ~ENABLED withdraw_algo(s, m)
               /\ \A m \in Amounts, to \in Addr :
                     ~ENABLED reclaim_asset(s, m, to))
    /\ [][exists => global'[CREATOR] = global[CREATOR]]_vars

\* A successful sale whose escrow holds currency and tokens: the creator can
\* withdraw and reclaim, and there is a sender who is not the creator.
C10_Witness ==
    /\ global[STATUS] = SUCCESS
    /\ algoBal > 0
    /\ asaBal > 0
    /\ ENABLED withdraw_algo(global[CREATOR], 1)
    /\ \E s \in Addr, to \in Addr :
          /\ s # global[CREATOR]
          /\ ENABLED reclaim_asset(global[CREATOR], 1, to)
          /\ ~ENABLED reclaim_asset(s, 1, to)

\* ===================== C11 =====================
\* C11: set_rate changes only the stored rate.  A step that changes the rate
\* of an existing sale leaves every box, the total, goal, deadline, status
\* and every balance as they were, so recorded entitlements are not
\* recomputed; the contribution that follows is credited at the rate stored
\* when it runs.
C11_SetRateChangesOnlyRate ==
    [][ /\ (exists /\ global'[RATE] # global[RATE])
            => /\ global' = [global EXCEPT ![RATE] = global'[RATE]]
               /\ UNCHANGED <<exists, boxes, algoBal, asaBal, appOptedIn, now,
                              output, history>>
        /\ \A e \in BagToSet(contribs' (-) contribs) :
              /\ e[3] = global[RATE]
              /\ OwedIn(boxes', e[1])
                    = Owed(e[1]) + (e[2] * global[RATE]) \div 1000000 ]_vars

\* A contributor paid 2 at rate 500,000 and the rate has since been set to
\* 1,500,000: the record still holds 1 token, not floor(2 * 1.5) = 3.
C11_Witness ==
    /\ global[RATE] = 1500000
    /\ BagCardinality(contribs) = 1
    /\ \E a \in Addr :
          /\ CopiesIn(<<a, 2, 500000>>, contribs) = 1
          /\ Owed(a) = 1
          /\ Pledged(a) = 2

C17_BothZeroOrBothPositive ==
    /\ [](\A a \in Addr : Pledged(a) > 0 <=> Owed(a) > 0)
    /\ [][\A a \in Addr :
            (BoxHasValue(box_key(a)) /\ Pledged(a) = 0 /\ Owed(a) = 0)
            => /\ PledgedIn(boxes', a) = 0
               /\ OwedIn(boxes', a) = 0 ]_vars

\* One record has been zeroed by a claim while another still holds a pledge
\* and an entitlement, both positive.
C17_Witness ==
    \E a \in Addr, b \in Addr :
        /\ a # b
        /\ BoxHasValue(box_key(a))
        /\ claimed[a] > 0
        /\ Pledged(a) = 0
        /\ Owed(a) = 0
        /\ Pledged(b) > 0
        /\ Owed(b) > 0

\* ===================== C18 =====================
\* C18: record isolation.  A step that changes the record of address b is a
\* contribute whose bound payment was sent by b (whoever called it), or b's
\* own claim, or b's own refund; a step that lowers either field of b's
\* record is b's own claim or refund; tokens are paid by claim to its caller
\* only and currency by refund to its caller only.  Hence finalize and the
\* admin operations change no record.
C18_RecordIsolation ==
    [][ boxes' = boxes
        \/ \A b \in Addr :
             /\ (PledgedIn(boxes', b) # Pledged(b) \/ OwedIn(boxes', b) # Owed(b))
                => \/ claim(b)
                   \/ refund(b)
                   \/ \E s \in Addr, m \in Amounts :
                         \E g \in Groups(b, m) :
                            g.sender0 = b /\ contribute(s, g)
             /\ (PledgedIn(boxes', b) < Pledged(b) \/ OwedIn(boxes', b) < Owed(b))
                => (claim(b) \/ refund(b))
             /\ claimed'[b] # claimed[b] => claim(b)
             /\ refunded'[b] # refunded[b] => refund(b) ]_vars

\* Two contributors in a successful sale: one has claimed, the other's record
\* still holds everything that contributor paid and accrued.
C18_Witness ==
    \E a \in Addr, b \in Addr :
        /\ a # b
        /\ global[STATUS] = SUCCESS
        /\ claimed[a] = AccruedBy(a)
        /\ claimed[a] > 0
        /\ claimed[b] = 0
        /\ Pledged(b) = PaidBy(b)
        /\ Owed(b) = AccruedBy(b)
        /\ Owed(b) > 0

\* ===================== C13 =====================
\* C13: accounting is bound to a matching payment.  contribute is accepted
\* only in a group of exactly two transactions with the call second and the
\* first a payment of a positive amount to the escrow; a step that records a
\* contribution adds the same amount to the payer's pledged_amount, to total
\* and to the escrow's currency balance, and total changes in no other step.
\* The currency received through contributions equals total: while OPEN the
\* escrow holds exactly total, after expiry total less what was refunded.
C13_AccountingBoundToPayment ==
    /\ [](\A s \in Addr, p \in Addr, m \in Amounts :
            \A g \in Groups(p, m) :
               ENABLED contribute(s, g)
               => /\ g.size = 2
                  /\ g.index = 1
                  /\ g.type0 = "pay"
                  /\ g.receiver0 = APP_ADDR
                  /\ g.amount0 > 0)
    /\ []((exists /\ global[STATUS] = OPEN) => algoBal = global[TOTAL])
    /\ []((exists /\ global[STATUS] = EXPIRED)
            => algoBal + refunded["A"] + refunded["B"] = global[TOTAL])
    /\ [][ /\ \A e \in BagToSet(contribs' (-) contribs) :
                /\ e[2] > 0
                /\ algoBal' - algoBal = e[2]
                /\ global'[TOTAL] - global[TOTAL] = e[2]
                /\ PledgedIn(boxes', e[1]) - Pledged(e[1]) = e[2]
           /\ (exists /\ global'[TOTAL] # global[TOTAL])
                => BagCardinality(contribs') = BagCardinality(contribs) + 1
         ]_vars

\* Two payments of different amounts from different payers have been
\* accepted in an open sale; the escrow holds their sum and so does total.
C13_Witness ==
    /\ global[STATUS] = OPEN
    /\ BagCardinality(contribs) = 2
    /\ Pledged("A") = 1
    /\ Pledged("B") = 2
    /\ algoBal = 3
    /\ global[TOTAL] = 3

\* ===================== C14 =====================
\* C14: a rejected inner transfer aborts the whole call.  claim, refund,
\* withdraw_algo and reclaim_asset are rejected whenever the escrow holds less
\* than the amount their inner transfer would send; a record is zeroed only
\* in a step that moves exactly the recorded amount out of the escrow, and
\* the status and total are untouched by settlement.  An unsettled record in
\* a successful sale therefore keeps its entitlement, and claim is accepted
\* as soon as the escrow holds the owed tokens.
C14_FailedTransferAborts ==
    /\ [](exists =>
            /\ \A a \in Addr :
                 /\ (global[STATUS] = SUCCESS /\ Owed(a) > 0)
                    => /\ Owed(a) = AccruedBy(a)
                       /\ ENABLED claim(a) <=> Owed(a) <= asaBal
                 /\ (global[STATUS] = EXPIRED /\ Pledged(a) > 0)
                    => /\ Pledged(a) = PaidBy(a)
                       /\ ENABLED refund(a) <=> Pledged(a) <= algoBal
            /\ \A m \in Amounts, to \in Addr :
                 /\ m > algoBal => ~ENABLED withdraw_algo(global[CREATOR], m)
                 /\ m > asaBal => ~ENABLED reclaim_asset(global[CREATOR], m, to))
    /\ [][ boxes' = boxes
           \/ \A a \in Addr :
                (Pledged(a) > 0 /\ PledgedIn(boxes', a) = 0)
                => /\ global' = global
                   /\ \/ /\ asaBal' = asaBal - Owed(a)
                         /\ Owed(a) <= asaBal
                         /\ algoBal' = algoBal
                      \/ /\ algoBal' = algoBal - Pledged(a)
                         /\ Pledged(a) <= algoBal
                         /\ asaBal' = asaBal ]_vars

\* A successful sale whose escrow has opted in but holds fewer tokens than a
\* contributor is owed: the claim is rejected, the record is intact, and a
\* deposit of the missing tokens is possible.
C14_Witness ==
    /\ global[STATUS] = SUCCESS
    /\ appOptedIn
    /\ \E a \in Addr :
          /\ Owed(a) > asaBal
          /\ Owed(a) <= MaxAsa
          /\ Owed(a) = AccruedBy(a)
          /\ ~ENABLED claim(a)
          /\ ENABLED Deposit(Owed(a) - asaBal)

\* ===================== C15 =====================
\* C15: reclaim_asset and withdraw_algo are not capped by what contributors
\* are still owed.  In SUCCESS or EXPIRED the creator's reclaim_asset of
\* amount to any receiver is accepted exactly when the escrow holds amount
\* tokens, whatever the outstanding owed_tokens; it moves exactly amount from
\* the escrow to the receiver and changes no record and no global field.  In
\* SUCCESS the creator's withdraw_algo of amount is accepted exactly when the
\* escrow holds amount, and changes no record and no global field.
C15_ReclaimNotCapped ==
    /\ []((exists /\ global[STATUS] \in {SUCCESS, EXPIRED})
            => \A m \in Amounts, to \in Addr :
                  ENABLED reclaim_asset(global[CREATOR], m, to) <=> m <= asaBal)
    /\ []((exists /\ global[STATUS] = SUCCESS)
            => \A m \in Amounts :
                  ENABLED withdraw_algo(global[CREATOR], m) <=> m <= algoBal)
    /\ [][ /\ \A to \in Addr :
                reclaimed'[to] # reclaimed[to]
                => /\ asaBal - asaBal' = reclaimed'[to] - reclaimed[to]
                   /\ reclaimed'[to] > reclaimed[to]
                   /\ UNCHANGED <<global, boxes, algoBal, contribs, claimed,
                                  refunded>>
           /\ (algoBal' < algoBal /\ refunded' = refunded)
                => /\ global[STATUS] = SUCCESS
                   /\ UNCHANGED <<global, boxes, asaBal, history>> ]_vars

\* A successful sale in which the creator has reclaimed tokens that the
\* escrow held: the balance left is below the outstanding owed_tokens, it
\* would have covered a contributor's entitlement had the reclaimed tokens
\* stayed, and that contributor's claim is rejected.
C15_Witness ==
    /\ global[STATUS] = SUCCESS
    /\ SumOver(reclaimed, Addr) > 0
    /\ asaBal < Owed("A") + Owed("B")
    /\ \E a \in Addr :
          /\ Owed(a) > 0
          /\ asaBal < Owed(a)
          /\ Owed(a) <= asaBal + SumOver(reclaimed, Addr)
          /\ ~ENABLED claim(a)

\* ===================== C16 =====================
\* floor(a * r / 1,000,000) by long multiplication in base 1000, exact for
\* all a, r below 2^23 * 1000 without forming the product a * r.
FloorQuotient(a, r) ==
    LET a1 == a \div 1000
        a0 == a % 1000
        r1 == r \div 1000
        r0 == r % 1000
    IN a1 * r1 + (a1 * r0 + a0 * r1 + (a0 * r0) \div 1000) \div 1000

\* C16: the entitlement is floor(amount * rate / 1,000,000) over the
\* full-width product.  For every amount and the stored rate whose product
\* exceeds the largest uint64 while the quotient fits one, WideRatio does not
\* panic and yields the exact quotient; every recorded contribution raises
\* the payer's owed_tokens by exactly that quotient.
C16_FullWidthProduct ==
    /\ [](exists =>
            \A m \in WideAmounts :
               LET r == global[RATE] IN
               (r > 0 /\ m > MaxUint64 \div r /\ FloorQuotient(m, r) <= MaxUint64)
               => /\ WideRatioFits(m, r, 1000000)
                  /\ WideRatio(m, r, 1000000) = FloorQuotient(m, r))
    /\ [][\A e \in BagToSet(contribs' (-) contribs) :
             /\ e[3] = global[RATE]
             /\ OwedIn(boxes', e[1]) - Owed(e[1]) = FloorQuotient(e[2], e[3])
         ]_vars

\* A payment of 3,000,001 at rate 1,500,000 has been accepted: the product
\* 4,500,001,500,000 does not fit the word, the record holds 4,500,001.
C16_Witness ==
    /\ 3000001 > MaxUint64 \div 1500000
    /\ BagCardinality(contribs) = 1
    /\ \E a \in Addr :
          /\ CopiesIn(<<a, 3000001, 1500000>>, contribs) = 1
          /\ Pledged(a) = 3000001
          /\ Owed(a) = 4500001

\* ===================== C20 =====================
RECURSIVE SumQuotients(_, _)
SumQuotients(B, S) ==
    IF S = {} THEN 0
    ELSE LET e == CHOOSE x \in S : TRUE
         IN CopiesIn(e, B) * FloorQuotient(e[2], e[3])
            + SumQuotients(B, S \ {e})

\* C20: uint64 overflow aborts instead of wrapping.  A contribute whose
\* pledged_amount + amount, owed_tokens + tokens, total + amount or quotient
\* amount * rate / 1,000,000 would exceed the largest uint64 is rejected; the
\* stored total and every stored field are at most the largest uint64, total
\* equals the true sum of the accepted payments, and each unsettled record
\* holds the true sums of its payments and of their quotients.
C20_OverflowAborts ==
    /\ [](exists =>
            /\ global[TOTAL] <= MaxUint64
            /\ global[TOTAL] = PaidTotal
            /\ \A a \in Addr :
                 /\ Pledged(a) <= MaxUint64
                 /\ Owed(a) <= MaxUint64
                 /\ (claimed[a] = 0 /\ refunded[a] = 0)
                    => /\ Pledged(a) = PaidBy(a)
                       /\ Owed(a) = SumQuotients(contribs, ByPayer(a)))
    /\ [](exists =>
            \A p \in Addr, m \in WideAmounts :
               LET t == FloorQuotient(m, global[RATE]) IN
               (\/ Pledged(p) + m > MaxUint64
                \/ Owed(p) + t > MaxUint64
                \/ global[TOTAL] + m > MaxUint64
                \/ t > MaxUint64)
               => \A s \in Addr : ~ENABLED contribute(s, WellFormedGroup(p, m)))

\* An open sale at rate 1,500,000 in which p has paid 3,000,001: a second
\* such payment by p would take p's owed_tokens past the largest uint64 and
\* is rejected, while the same payment by the other address is accepted.
C20_Witness ==
    /\ global[STATUS] = OPEN
    /\ global[RATE] = 1500000
    /\ BagCardinality(contribs) < MaxContribs
    /\ \E p \in Addr, q \in Addr :
          /\ p # q
          /\ Owed(p) = 4500001
          /\ Owed(p) + FloorQuotient(3000001, 1500000) > MaxUint64
          /\ Pledged(p) + 3000001 <= MaxUint64
          /\ global[TOTAL] + 3000001 <= MaxUint64
          /\ ~ENABLED contribute(p, WellFormedGroup(p, 3000001))
          /\ ENABLED contribute(q, WellFormedGroup(q, 3000001))

\* ===================== C19 =====================
\* The parts of C19 that do not concern settlement: in an OPEN sale whose
\* deadline has been reached finalize is accepted from every sender and
\* contribute from none, a step that leaves OPEN from there leads to SUCCESS
\* if total >= goal and to EXPIRED otherwise, and every sale that exists
\* eventually has status SUCCESS or EXPIRED.
C19_LeavesOpen ==
    /\ []((exists /\ global[STATUS] = OPEN /\ now >= global[DEADLINE])
            => /\ \A s \in Addr : ENABLED finalize(s)
               /\ \A s \in Addr, p \in Addr, m \in Amounts :
                     ~ENABLED contribute(s, WellFormedGroup(p, m)))
    /\ [][(exists /\ global[STATUS] = OPEN /\ now >= global[DEADLINE]
             /\ global'[STATUS] # OPEN)
            => global'[STATUS] = IF global[TOTAL] >= global[GOAL]
                                 THEN SUCCESS ELSE EXPIRED]_vars
    /\ (exists ~> global[STATUS] \in {SUCCESS, EXPIRED})

====
